---- MODULE Spec2Model ----
(***************************************************************************)
(* A model of win_installer.py: the command-line check of the __main__     *)
(* block and the pipeline of run(), one action per statement of run() that *)
(* can fail or has an effect outside the process.                          *)
(*                                                                         *)
(* Text is a sequence of one-character strings, so that partition('=='),   *)
(* endswith('setup.py'), splitlines() and the f-string of the installer    *)
(* name are computed and not assumed.  The literal chunks of the pynsist   *)
(* template are kept as single elements.                                   *)
(***************************************************************************)
EXTENDS Naturals, Sequences, FiniteSets, TLC

(***************************************************************************)
(* Bounds of the model.                                                    *)
(***************************************************************************)
\* the longest "pip freeze" output, in lines
MaxFreezeLines == 2
\* the most command-line arguments after the script name
MaxArgs == 2

(***************************************************************************)
(* Text helpers.                                                           *)
(***************************************************************************)
S_32 == <<"3", "2">>
S_64 == <<"6", "4">>
S_16 == <<"1", "6">>
S_setup_py == <<"s", "e", "t", "u", "p", ".", "p", "y">>
S_a_setup_py == <<"a", "/">> \o S_setup_py
S_setup_pyc == S_setup_py \o <<"c">>
S_a_setup_cfg == <<"a", "/", "s", "e", "t", "u", "p", ".", "c", "f", "g">>
S_script == <<"win_installer.py">>
S_mu == <<"m", "u">>
S_Foo == <<"F", "o", "o">>
S_1_0 == <<"1", ".", "0">>
S_1_2_3 == <<"1", ".", "2", ".", "3">>
S_eqeq == <<"=", "=">>
S_x == <<"x">>
S_y == <<"y">>
LF == "\n"
CR == "\r"

RECURSIVE Flatten(_)
\* the concatenation of a sequence of texts
Flatten(ss) ==
    IF ss = <<>> THEN <<>> ELSE Head(ss) \o Flatten(Tail(ss))

RECURSIVE Join(_, _)
\* sep.join(ss)
Join(sep, ss) ==
    IF ss = <<>> THEN <<>>
    ELSE IF Len(ss) = 1 THEN Head(ss)
    ELSE Head(ss) \o sep \o Join(sep, Tail(ss))

\* s.endswith(suffix)
EndsWithPrefixBug(s, suffix) ==
    /\ Len(suffix) <= Len(s)
    /\ SubSeq(s, 1, Len(suffix)) = suffix

EndsWith(s, suffix) ==
    /\ Len(suffix) <= Len(s)
    /\ SubSeq(s, Len(s) - Len(suffix) + 1, Len(s)) = suffix

\* the index of the first occurrence of sep in s, 0 when there is none
Find(s, sep) ==
    LET hits == {i \in 1..Len(s) :
                    /\ i + Len(sep) - 1 <= Len(s)
                    /\ SubSeq(s, i, i + Len(sep) - 1) = sep}
    IN  IF hits = {} THEN 0
        ELSE CHOOSE i \in hits : \A j \in hits : i <= j

\* s.partition(sep): <<before, sep, after>>, or <<s, '', ''>> without sep
Partition(s, sep) ==
    LET i == Find(s, sep)
    IN  IF i = 0 THEN <<s, <<>>, <<>>>>
        ELSE <<SubSeq(s, 1, i - 1), sep, SubSeq(s, i + Len(sep), Len(s))>>

\* os.path.dirname(path): the text before the last '/'
Dirname(path) ==
    LET slashes == {i \in 1..Len(path) : path[i] = "/"}
    IN  IF slashes = {} THEN <<>>
        ELSE SubSeq(path, 1,
                    (CHOOSE i \in slashes : \A j \in slashes : j <= i) - 1)

\* os.path.abspath of a relative path: the current directory comes first
Abspath(path) == <<"<cwd>">> \o (IF path = <<>> THEN <<>> ELSE <<"/">> \o path)

\* os.path.join(a, b1, ..., bn), the parts b given as one sequence
PathJoin(a, parts) == a \o Flatten([i \in 1..Len(parts) |-> <<"/">> \o parts[i]])

RECURSIVE SplitLines(_)
\* text.splitlines(): lines end at "\n", "\r" or "\r\n"; no empty last line
SplitLines(text) ==
    LET ends == {i \in 1..Len(text) : text[i] \in {LF, CR}}
    IN  IF text = <<>> THEN <<>>
        ELSE IF ends = {} THEN <<text>>
        ELSE LET e == CHOOSE i \in ends : \A j \in ends : i <= j
                 skip == IF /\ text[e] = CR
                            /\ e < Len(text)
                            /\ text[e + 1] = LF
                         THEN e + 1 ELSE e
             IN  <<SubSeq(text, 1, e - 1)>>
                    \o SplitLines(SubSeq(text, skip + 1, Len(text)))

\* all sequences over S of length at most n
RECURSIVE SeqsUpTo(_, _)
SeqsUpTo(S, n) ==
    IF n = 0 THEN {<<>>}
    ELSE LET shorter == SeqsUpTo(S, n - 1)
         IN  shorter \cup {Append(s, x) : s \in {t \in shorter : Len(t) = n - 1}, x \in S}

\* the set of elements of a sequence
Range(s) == {s[i] : i \in 1..Len(s)}

\* every order in which a set can be iterated
Orders(S) ==
    {s \in [1..Cardinality(S) -> S] : \A i, j \in 1..Cardinality(S) : i # j => s[i] # s[j]}

(***************************************************************************)
(* Program constants and the world outside the program.                    *)
(***************************************************************************)
\* ASSETS: the download URL of each accepted bitness, split at '/'
ASSETS ==
    [b \in {S_32, S_64} |->
        <<"https:", "", "github.com", "mu-editor", "mu_tkinter", "releases",
          "download", "0.3",
          IF b = S_32 THEN "pynsist_tkinter_3.6_32bit.zip"
                      ELSE "pynsist_tkinter_3.6_64bit.zip">>]

\* PYNSIST_CFG_TEMPLATE: literal text and {placeholders}, in order
PYNSIST_CFG_TEMPLATE ==
    << [lit |-> "\n[Application]\nname=Mu\nversion="], [field |-> "version"],
       [lit |-> "\nentry_point=mu.app:run\nicon="], [field |-> "icon_file"],
       [lit |-> "\npublisher=Nicholas H.Tollervey\nlicense_file="],
       [field |-> "license_file"],
       [lit |-> "\n\n[Command mu-debug]\nentry_point=mu.app:debug\n\n[Command pgzrun]\nentry_point=pgzero.runner:main\n\n[Python]\nversion=3.6.3\nbitness="],
       [field |-> "bitness"],
       [lit |-> "\nformat=bundled\n\n[Include]\npypi_wheels=\n    "],
       [field |-> "pypi_wheels"],
       [lit |-> "\n\npackages=\n    tkinter\n    _tkinter\n    turtle\n    "],
       [field |-> "packages"],
       [lit |-> "\n\nfiles=lib\n\n[Build]\ninstaller_name="],
       [field |-> "installer_name"],
       [lit |-> "\n"] >>

\* the argument strings a command line is drawn from
ArgStrings == {S_32, S_64, S_16, S_a_setup_py, S_setup_pyc, S_a_setup_cfg}

\* the command lines: the script name and up to MaxArgs arguments
CommandLines == {S_script_argv \o args :
                    S_script_argv \in {<<S_script>>},
                    args \in SeqsUpTo(ArgStrings, MaxArgs)}

\* what mu/__about__.py may define
Abouts == {[title |-> S_mu, version |-> S_1_0],
           [title |-> S_Foo, version |-> S_1_2_3]}

\* the lines "pip freeze --all" may print
FreezeLineSet == {S_mu \o S_eqeq \o S_1_0,
                  S_x \o S_eqeq \o <<"1">>,
                  S_x \o S_eqeq \o <<"2">>,
                  S_y}

\* the bytes "pip freeze --all" may print: lines ended by "\n" or by "\r\n"
FreezeTexts ==
    {Flatten([k \in 1..Len(ls) |-> ls[k] \o nl]) :
        ls \in SeqsUpTo(FreezeLineSet, MaxFreezeLines),
        nl \in {<<LF>>, <<CR, LF>>}}

\* the release lists the package index may hold for one name and version
ReleaseLists == {<<"sdist">>, <<"sdist", "wheel">>}
Unknown == <<"?">>

SubprocessSteps == {"venv", "install_mu", "pip_freeze", "install_pynsist", "nsist"}

VARIABLES
    sys_argv,        \* sys.argv
    pc,              \* the statement to run next
    exit_status,     \* the exit status of the process, "running" before it ends
    stderr,          \* the message sys.exit printed, "" when none
    exc,             \* the exception in flight, "none" when none
    work_dir,        \* the temporary directory: "none", "exists" or "removed"
    work_files,      \* the paths below work_dir
    cwd_files,       \* what was copied to the current directory
    trace,           \* the stages entered, in order
    spawned,         \* the child processes started, in order
    rc,              \* the outcome of each child process
    downloads,       \* the URLs requested with requests.get, in order
    lookups,         \* the package-index lookups made by wheels_in, in order
    bitness,         \* run()'s bitness
    repo_root,       \* run()'s repo_root
    mu_about,        \* mu_package_name and mu_version
    freeze_lines,    \* the value pip_freeze returned
    requirements,    \* run()'s requirements
    wheels,          \* the wheels list of wheels_in, then of run()
    idx,             \* the position of wheels_in's loop in requirements
    packages,        \* run()'s packages
    installer_name,  \* run()'s installer_name
    cfg_payload,     \* the text written to pynsist.cfg
    asset,           \* what the download left on disk: "none", "zip" or "not_zip"
    env,             \* the descriptor, the frozen environment and the package index
    first_cfg,       \* the text an earlier run on the same inputs wrote
    run_no           \* 1 in the first run of the script, 2 in a second

vars == <<sys_argv, pc, exit_status, stderr, exc, work_dir, work_files, cwd_files,
          trace, spawned, rc, downloads, lookups, bitness, repo_root, mu_about,
          freeze_lines, requirements, wheels, idx, packages, installer_name,
          cfg_payload, asset, env, first_cfg, run_no>>

process == <<exit_status, stderr>>
files == <<work_dir, work_files, cwd_files, asset>>
network == <<downloads, lookups>>
children == <<spawned, rc>>
arguments == <<bitness, repo_root>>
locals == <<mu_about, freeze_lines, requirements, wheels, idx, packages,
            installer_name, cfg_payload>>
runs == <<sys_argv, first_cfg, run_no>>

NoAbout == [title |-> <<>>, version |-> <<>>]

\* the state of the interpreter before the first statement of __main__
Fresh ==
    /\ pc = "main"
    /\ exit_status = "running"
    /\ stderr = ""
    /\ exc = "none"
    /\ work_dir = "none"
    /\ work_files = {}
    /\ cwd_files = {}
    /\ trace = <<>>
    /\ spawned = <<>>
    /\ rc = [s \in SubprocessSteps |-> "notrun"]
    /\ downloads = <<>>
    /\ lookups = <<>>
    /\ bitness = <<>>
    /\ repo_root = <<>>
    /\ mu_about = NoAbout
    /\ freeze_lines = <<>>
    /\ requirements = <<>>
    /\ wheels = <<>>
    /\ idx = 0
    /\ packages = <<>>
    /\ installer_name = <<>>
    /\ cfg_payload = <<>>
    /\ asset = "none"

Init ==
    /\ sys_argv \in CommandLines
    /\ Fresh
    /\ env = [about |-> <<>>, freeze |-> <<>>,
              pypi |-> [r \in FreezeLineSet |-> Unknown]]
    /\ first_cfg = <<>>
    /\ run_no = 1

\* an exception leaves the with block of run()
Raise(e) ==
    /\ exc' = e
    /\ pc' = "exit_with"

\* sys.exit(message): the message goes to stderr, the status is 1
SysExit(message) ==
    /\ stderr' = message
    /\ exit_status' = "1"
    /\ pc' = "exited"

(***************************************************************************)
(* __main__                                                                *)
(***************************************************************************)
\* bitness in ASSETS
ValidBitnessAnyTwoDigits(b) == Len(b) = 2

ValidBitness(b) == b \in DOMAIN ASSETS

Main ==
    /\ pc = "main"
    /\ IF Len(sys_argv) # 3
       THEN /\ SysExit("Supply bitness (32 or 64) and path to setup.py.")
            /\ UNCHANGED arguments
       ELSE LET b == sys_argv[2]
                setup_py_path == sys_argv[3]
            IN  IF ~ValidBitness(b)
                THEN /\ SysExit("Invalid bitness: use 32 or 64.")
                     /\ UNCHANGED arguments
                ELSE IF ~EndsWith(setup_py_path, S_setup_py)
                THEN /\ SysExit("Invalid path to setup.py.")
                     /\ UNCHANGED arguments
                ELSE /\ bitness' = b
                     /\ repo_root' = Abspath(Dirname(setup_py_path))
                     /\ pc' = "run"
                     /\ UNCHANGED process
    /\ UNCHANGED <<exc, files, trace, children, network, locals, env, runs>>

(***************************************************************************)
(* run(): entering the with block creates the temporary directory          *)
(***************************************************************************)
RunEnter ==
    /\ pc = "run"
    /\ \E created \in BOOLEAN :
        IF created
        THEN /\ work_dir' = "exists"
             /\ pc' = "about_dict"
             /\ UNCHANGED <<exc, process>>
        ELSE /\ exc' = "OSError"
             /\ pc' = "raised"
             /\ exit_status' = "1"
             /\ UNCHANGED <<work_dir, stderr>>
    /\ UNCHANGED <<work_files, cwd_files, asset, trace, children, network,
                   arguments, locals, env, runs>>

\* about_dict(repo_root) and the two keys run() reads from it
AboutDict ==
    /\ pc = "about_dict"
    /\ trace' = Append(trace, "about_dict")
    /\ \E readable \in BOOLEAN :
        IF readable
        THEN \E about \in (IF env.about = <<>> THEN Abouts ELSE {env.about[1]}) :
                /\ mu_about' = about
                /\ env' = [env EXCEPT !.about = <<about>>]
                /\ pc' = "create_packaging_venv"
                /\ UNCHANGED exc
        ELSE /\ Raise("FileNotFoundError")
             /\ UNCHANGED <<mu_about, env>>
    /\ UNCHANGED <<process, files, children, network, arguments, freeze_lines,
                   requirements, wheels, idx, packages, installer_name,
                   cfg_payload, runs>>

\* subprocess.run(cmd): the exit status is not looked at; only a child that
\* cannot be started raises
SubprocessRun(step, next) ==
    /\ spawned' = Append(spawned, step)
    /\ \E outcome \in {"0", "1", "OSError"} :
        /\ rc' = [rc EXCEPT ![step] = outcome]
        /\ IF outcome = "OSError"
           THEN Raise("OSError")
           ELSE /\ pc' = next
                /\ UNCHANGED exc

CreatePackagingVenv ==
    /\ pc = "create_packaging_venv"
    /\ trace' = Append(trace, "create_packaging_venv")
    /\ SubprocessRun("venv", "install_mu")
    /\ UNCHANGED <<process, files, network, arguments, locals, env, runs>>

InstallMu ==
    /\ pc = "install_mu"
    /\ trace' = Append(trace, "install_mu")
    /\ SubprocessRun("install_mu", "pip_freeze")
    /\ UNCHANGED <<process, files, network, arguments, locals, env, runs>>

\* the list comprehension of run(): the lines whose name is not Mu's
RECURSIVE NotMu(_, _)
NotMuKeepsMu(lines, mu_package_name) ==
    SelectSeq(lines, LAMBDA line : Partition(line, S_eqeq)[1] = mu_package_name)

NotMu(lines, mu_package_name) ==
    IF lines = <<>> THEN <<>>
    ELSE IF Partition(Head(lines), S_eqeq)[1] # mu_package_name
         THEN <<Head(lines)>> \o NotMu(Tail(lines), mu_package_name)
         ELSE NotMu(Tail(lines), mu_package_name)

\* pip_freeze(python, encoding): subprocess.check_output raises when the child
\* exits non-zero; the output is split into lines
PipFreeze ==
    /\ pc = "pip_freeze"
    /\ trace' = Append(trace, "pip_freeze")
    /\ spawned' = Append(spawned, "pip_freeze")
    /\ \E outcome \in {"0", "1", "OSError"} :
        /\ rc' = [rc EXCEPT !["pip_freeze"] = outcome]
        /\ IF outcome = "0"
           THEN \E text \in (IF env.freeze = <<>> THEN FreezeTexts
                             ELSE {t \in FreezeTexts : SplitLines(t) = env.freeze[1]}) :
                    /\ freeze_lines' = SplitLines(text)
                    /\ requirements' = NotMu(SplitLines(text), mu_about.title)
                    /\ env' = [env EXCEPT !.freeze = <<SplitLines(text)>>]
                    /\ pc' = "wheels_in"
                    /\ UNCHANGED exc
           ELSE /\ Raise(IF outcome = "1" THEN "CalledProcessError" ELSE "OSError")
                /\ UNCHANGED <<freeze_lines, requirements, env>>
    /\ UNCHANGED <<process, files, network, arguments, mu_about, wheels, idx,
                   packages, installer_name, cfg_payload, runs>>

(***************************************************************************)
(* wheels_in(requirements)                                                 *)
(***************************************************************************)
\* package.release(version) when the index has no such version
None == <<"None">>

\* any(r.package_type == 'wheel' for r in releases)
HasWheelAll(releases) == \A k \in 1..Len(releases) : releases[k] = "wheel"

HasWheel(releases) == \E k \in 1..Len(releases) : releases[k] = "wheel"

\* what the index answers for a requirement: fixed once it has been seen
IndexAnswers(requirement) ==
    IF env.pypi[requirement] = Unknown
    THEN ReleaseLists \cup {None}
    ELSE {env.pypi[requirement]}

WheelsIn ==
    /\ pc = "wheels_in"
    /\ trace' = Append(trace, "wheels_in")
    /\ wheels' = <<>>
    /\ idx' = 1
    /\ pc' = "wheels_in_for"
    /\ UNCHANGED <<exc, process, files, children, network, arguments, mu_about,
                   freeze_lines, requirements, packages, installer_name,
                   cfg_payload, env, runs>>

\* one turn of the for loop: yarg.get(name), package.release(version), any(...)
WheelsInFor ==
    /\ pc = "wheels_in_for"
    /\ idx <= Len(requirements)
    /\ LET requirement == requirements[idx]
           name == Partition(requirement, S_eqeq)[1]
           version == Partition(requirement, S_eqeq)[3]
       IN  \E fetched \in BOOLEAN :
            IF fetched
            THEN \E releases \in IndexAnswers(requirement) :
                    /\ lookups' = Append(lookups, [name |-> name, version |-> version,
                                                   releases |-> releases])
                    /\ env' = [env EXCEPT !.pypi[requirement] = releases]
                    /\ IF releases = None
                       THEN /\ Raise("TypeError")
                            /\ UNCHANGED <<wheels, idx>>
                       ELSE /\ wheels' = IF HasWheel(releases)
                                         THEN Append(wheels, requirement)
                                         ELSE wheels
                            /\ idx' = idx + 1
                            /\ UNCHANGED <<pc, exc>>
            ELSE /\ lookups' = Append(lookups, [name |-> name, version |-> version,
                                                releases |-> <<"HTTPError">>])
                 /\ Raise("HTTPError")
                 /\ UNCHANGED <<wheels, idx, env>>
    /\ UNCHANGED <<process, files, trace, children, downloads, arguments, mu_about,
                   freeze_lines, requirements, packages, installer_name,
                   cfg_payload, runs>>

\* return wheels
WheelsInReturn ==
    /\ pc = "wheels_in_for"
    /\ idx > Len(requirements)
    /\ pc' = "packages_from"
    /\ UNCHANGED <<exc, process, files, trace, children, network, arguments,
                   locals, env, runs>>

(***************************************************************************)
(* packages_from(requirements, wheels): the lists it may return, one for   *)
(* each order in which the set difference is iterated                      *)
(***************************************************************************)
packages_from_no_difference(reqs, whls) ==
    LET rset == Range(reqs)
    IN  {[k \in 1..Len(o) |-> Partition(o[k], S_eqeq)[1]] : o \in Orders(rset)}

packages_from(reqs, whls) ==
    LET rset == Range(reqs)
        wset == Range(whls)
        pset == rset \ wset
    IN  {[k \in 1..Len(o) |-> Partition(o[k], S_eqeq)[1]] : o \in Orders(pset)}

PackagesFrom ==
    /\ pc = "packages_from"
    /\ trace' = Append(trace, "packages_from")
    /\ packages' \in packages_from(requirements, wheels)
    /\ pc' = "create_pynsist_cfg_file"
    /\ UNCHANGED <<exc, process, files, children, network, arguments, mu_about,
                   freeze_lines, requirements, wheels, idx, installer_name,
                   cfg_payload, env, runs>>

(***************************************************************************)
(* create_pynsist_cfg_file and the installer name                          *)
(***************************************************************************)
WorkDir == <<"<work_dir>">>

\* f'{mu_package_name}_{mu_version}_win{bitness}.exe'
InstallerNameNoBitness(mu_package_name, mu_version, b) ==
    mu_package_name \o <<"_">> \o mu_version \o <<"_", "w", "i", "n">>
        \o <<".", "e", "x", "e">>

InstallerName(mu_package_name, mu_version, b) ==
    mu_package_name \o <<"_">> \o mu_version \o <<"_", "w", "i", "n">> \o b
        \o <<".", "e", "x", "e">>

\* template.format(**kw)
Format(template, kw) ==
    Flatten([k \in 1..Len(template) |->
                IF "lit" \in DOMAIN template[k]
                THEN <<template[k].lit>>
                ELSE kw[template[k].field]])

CreatePynsistCfgFile ==
    /\ pc = "create_pynsist_cfg_file"
    /\ trace' = Append(trace, "create_pynsist_cfg_file")
    /\ installer_name' = InstallerName(mu_about.title, mu_about.version, bitness)
    /\ LET kw == [version |-> mu_about.version,
                  icon_file |-> PathJoin(repo_root, << <<"package">>, <<"icons">>,
                                                       <<"win_icon.ico">> >>),
                  license_file |-> PathJoin(repo_root, << <<"LICENSE">> >>),
                  bitness |-> bitness,
                  pypi_wheels |-> Join(<<"\n    ">>, wheels),
                  packages |-> Join(<<"\n    ">>, packages),
                  installer_name |-> installer_name']
           filename == PathJoin(WorkDir, << <<"pynsist.cfg">> >>)
       IN  \E written \in BOOLEAN :
            IF written
            THEN /\ cfg_payload' = Format(PYNSIST_CFG_TEMPLATE, kw)
                 /\ work_files' = work_files \cup {filename}
                 /\ pc' = "download_file"
                 /\ UNCHANGED exc
            ELSE /\ Raise("OSError")
                 /\ UNCHANGED <<cfg_payload, work_files>>
    /\ UNCHANGED <<process, work_dir, cwd_files, asset, children, network,
                   arguments, mu_about, freeze_lines, requirements, wheels, idx,
                   packages, env, runs>>

(***************************************************************************)
(* download_file and unzip_file                                            *)
(***************************************************************************)
\* requests.get raises when there is no connection; an HTTP error status is
\* not looked at, and its body is written to the file
DownloadFile ==
    /\ pc = "download_file"
    /\ trace' = Append(trace, "download_file")
    /\ LET url == ASSETS[bitness]
           local_filename == PathJoin(WorkDir, << <<url[Len(url)]>> >>)
       IN  /\ downloads' = Append(downloads, url)
           /\ \E got \in {"zip", "not_zip", "ConnectionError"} :
                IF got = "ConnectionError"
                THEN /\ Raise("ConnectionError")
                     /\ UNCHANGED <<work_files, asset>>
                ELSE /\ work_files' = work_files \cup {local_filename}
                     /\ asset' = got
                     /\ pc' = "unzip_file"
                     /\ UNCHANGED exc
    /\ UNCHANGED <<process, work_dir, cwd_files, children, lookups, arguments,
                   locals, env, runs>>

UnzipFile ==
    /\ pc = "unzip_file"
    /\ trace' = Append(trace, "unzip_file")
    /\ IF asset = "zip"
       THEN /\ work_files' = work_files \cup {PathJoin(WorkDir, << <<"lib">> >>)}
            /\ pc' = "install_pynsist"
            /\ UNCHANGED exc
       ELSE /\ Raise("BadZipFile")
            /\ UNCHANGED work_files
    /\ UNCHANGED <<process, work_dir, cwd_files, asset, children, network,
                   arguments, locals, env, runs>>

(***************************************************************************)
(* pynsist: installed, run, and its installer copied                       *)
(***************************************************************************)
InstallPynsistSkipsBuilder ==
    /\ pc = "install_pynsist"
    /\ trace' = Append(trace, "install_pynsist")
    /\ SubprocessRun("install_pynsist", "copy")
    /\ UNCHANGED <<process, files, network, arguments, locals, env, runs>>

InstallPynsist ==
    /\ pc = "install_pynsist"
    /\ trace' = Append(trace, "install_pynsist")
    /\ SubprocessRun("install_pynsist", "run_pynsist")
    /\ UNCHANGED <<process, files, network, arguments, locals, env, runs>>

\* the installer pynsist builds, when it builds one
BuilderOutput == PathJoin(WorkDir, << <<"build">>, <<"nsis">>, installer_name >>)

RunPynsist ==
    /\ pc = "run_pynsist"
    /\ trace' = Append(trace, "run_pynsist")
    /\ SubprocessRun("nsist", "copy")
    /\ \E built \in BOOLEAN :
        work_files' = IF built /\ rc'["nsist"] # "OSError"
                      THEN work_files \cup {BuilderOutput}
                      ELSE work_files
    /\ UNCHANGED <<process, work_dir, cwd_files, asset, network, arguments,
                   locals, env, runs>>

\* shutil.copy(os.path.join(work_dir, 'build', 'nsis', installer_name), '.')
CopyInstaller ==
    /\ pc = "copy"
    /\ trace' = Append(trace, "copy")
    /\ LET src == PathJoin(WorkDir, << <<"build">>, <<"nsis">>, installer_name >>)
       IN  IF src \in work_files
           THEN \E writable \in BOOLEAN :
                    IF writable
                    THEN /\ cwd_files' = cwd_files \cup
                                {[name |-> installer_name, from |-> src]}
                         /\ pc' = "exit_with"
                         /\ UNCHANGED exc
                    ELSE /\ Raise("PermissionError")
                         /\ UNCHANGED cwd_files
           ELSE /\ Raise("FileNotFoundError")
                /\ UNCHANGED cwd_files
    /\ UNCHANGED <<process, work_dir, work_files, asset, children, network,
                   arguments, locals, env, runs>>

(***************************************************************************)
(* The end of the with block, of run() and of the process                  *)
(***************************************************************************)
\* TemporaryDirectory.__exit__: the directory goes, then the exception, if
\* any, goes on and ends the process
TempDirExitLeaksOnError ==
    /\ pc = "exit_with"
    /\ trace' = Append(trace, "cleanup")
    /\ IF exc = "none"
       THEN /\ work_dir' = "removed"
            /\ work_files' = {}
            /\ pc' = "print_completed"
            /\ UNCHANGED process
       ELSE /\ pc' = "raised"
            /\ exit_status' = "1"
            /\ UNCHANGED <<stderr, work_dir, work_files>>
    /\ UNCHANGED <<exc, cwd_files, asset, children, network, arguments, locals,
                   env, runs>>

TempDirExit ==
    /\ pc = "exit_with"
    /\ trace' = Append(trace, "cleanup")
    /\ work_dir' = "removed"
    /\ work_files' = {}
    /\ IF exc = "none"
       THEN /\ pc' = "print_completed"
            /\ UNCHANGED process
       ELSE /\ pc' = "raised"
            /\ exit_status' = "1"
            /\ UNCHANGED stderr
    /\ UNCHANGED <<exc, cwd_files, asset, children, network, arguments, locals,
                   env, runs>>

\* print(f'Completed. Installer file is {installer_name}.')
PrintCompleted ==
    /\ pc = "print_completed"
    /\ trace' = Append(trace, "completed")
    /\ pc' = "done"
    /\ exit_status' = "0"
    /\ UNCHANGED <<stderr, exc, files, children, network, arguments, locals, env,
                   runs>>

Next ==
    \/ Main
    \/ RunEnter
    \/ AboutDict
    \/ CreatePackagingVenv
    \/ InstallMu
    \/ PipFreeze
    \/ WheelsIn
    \/ WheelsInFor
    \/ WheelsInReturn
    \/ PackagesFrom
    \/ CreatePynsistCfgFile
    \/ DownloadFile
    \/ UnzipFile
    \/ InstallPynsist
    \/ RunPynsist
    \/ CopyInstaller
    \/ TempDirExit
    \/ PrintCompleted

Spec == Init /\ [][Next]_vars

(***************************************************************************)
(* The script run a second time on the same command line, descriptor,      *)
(* frozen environment and package index.                                   *)
(***************************************************************************)
Rerun ==
    /\ pc \in {"done", "raised"}
    /\ run_no = 1
    /\ run_no' = 2
    /\ first_cfg' = cfg_payload
    /\ pc' = "main"
    /\ exit_status' = "running"
    /\ stderr' = ""
    /\ exc' = "none"
    /\ work_dir' = "none"
    /\ work_files' = {}
    /\ cwd_files' = {}
    /\ asset' = "none"
    /\ trace' = <<>>
    /\ spawned' = <<>>
    /\ rc' = [s \in SubprocessSteps |-> "notrun"]
    /\ downloads' = <<>>
    /\ lookups' = <<>>
    /\ bitness' = <<>>
    /\ repo_root' = <<>>
    /\ mu_about' = NoAbout
    /\ freeze_lines' = <<>>
    /\ requirements' = <<>>
    /\ wheels' = <<>>
    /\ idx' = 0
    /\ packages' = <<>>
    /\ installer_name' = <<>>
    /\ cfg_payload' = <<>>
    /\ UNCHANGED <<sys_argv, env>>

NextTwoRuns == Next \/ Rerun

SpecTwoRuns == Init /\ [][NextTwoRuns]_vars

(***************************************************************************)
(* Properties.                                                             *)
(***************************************************************************)
\* the name before '==' of a requirement line
NameOf(line) == Partition(line, S_eqeq)[1]

Names(lines) == {NameOf(lines[k]) : k \in 1..Len(lines)}

\* the stages of trace that are in the set wanted, in order
Project(wanted) == SelectSeq(trace, LAMBDA stage : stage \in wanted)

Position(stage) == CHOOSE k \in 1..Len(trace) : trace[k] = stage

RunEnded == pc \in {"raised", "done"}

\* C1: once run() has ended, normally or by an exception raised at any step,
\* the temporary working directory it created no longer exists.
C1_TempDirRemoved ==
    RunEnded =>
        /\ work_dir # "exists"
        /\ work_files = {}
        /\ trace # <<>> => work_dir = "removed"

\* C1 witness: a run ended by a failed download, its directory removed
C1_Witness ==
    /\ pc = "raised"
    /\ exc = "ConnectionError"
    /\ work_dir = "removed"

\* the stage in which each child process is started
StageOf ==
    [s \in SubprocessSteps |->
        CASE s = "venv" -> "create_packaging_venv"
          [] s = "install_mu" -> "install_mu"
          [] s = "pip_freeze" -> "pip_freeze"
          [] s = "install_pynsist" -> "install_pynsist"
          [] s = "nsist" -> "run_pynsist"]

\* C2: when the child process of environment creation, of installing the
\* application, of freeze or of the builder exits non-zero, no later pipeline
\* step is executed and the run does not report completion.
C2_SubprocessFailureEndsRun ==
    \A s \in {"venv", "install_mu", "pip_freeze", "nsist"} :
        rc[s] = "1" =>
            LET stages == SelectSeq(trace, LAMBDA stage : stage # "cleanup")
            IN  /\ stages[Len(stages)] = StageOf[s]
                /\ pc \notin {"print_completed", "done"}

\* C3: a command line whose bitness argument is neither '32' nor '64' ends
\* with a message and a non-zero exit status; no child process is started,
\* no network request is made and run() is not entered.
C3_InvalidBitnessExits ==
    (Len(sys_argv) >= 2 /\ sys_argv[2] \notin {S_32, S_64}) =>
        /\ pc \in {"main", "exited"}
        /\ pc = "exited" => (exit_status = "1" /\ stderr # "")
        /\ spawned = <<>>
        /\ downloads = <<>>
        /\ lookups = <<>>
        /\ work_dir = "none"
        /\ trace = <<>>

\* C3 witness: bitness 16 with a good path has been turned down
C3_Witness ==
    /\ sys_argv = <<S_script, S_16, S_a_setup_py>>
    /\ pc = "exited"
    /\ stderr = "Invalid bitness: use 32 or 64."

\* path = something followed by setup.py
HasSetupPySuffix(path) ==
    \E k \in 0..Len(path) : path = SubSeq(path, 1, k) \o S_setup_py

\* C4: a command line of two arguments whose path does not end with
\* 'setup.py' ends with a message and a non-zero exit status before any
\* work: no temporary directory, no child process, no network request,
\* whatever the bitness argument.
C4_BadPathExits ==
    (Len(sys_argv) = 3 /\ ~HasSetupPySuffix(sys_argv[3])) =>
        /\ pc \in {"main", "exited"}
        /\ pc = "exited" => (exit_status = "1" /\ stderr # "")
        /\ work_dir = "none"
        /\ spawned = <<>>
        /\ downloads = <<>>
        /\ lookups = <<>>

\* C4 witness: a valid bitness with the path setup.pyc has been turned down
C4_Witness ==
    /\ sys_argv = <<S_script, S_64, S_setup_pyc>>
    /\ pc = "exited"
    /\ stderr = "Invalid path to setup.py."

PackagesComputed == "packages_from" \in Range(trace)

\* C5 as stated: for every requirement list, the names in wheels and the
\* names in packages are disjoint and together are the names of the list.
C5_NamePartition ==
    PackagesComputed =>
        /\ Names(wheels) \cap Range(packages) = {}
        /\ Names(wheels) \cup Range(packages) = Names(requirements)

\* no two different lines of the list have the same name
NamesUnique(lines) ==
    \A j, k \in 1..Len(lines) :
        lines[j] # lines[k] => NameOf(lines[j]) # NameOf(lines[k])

\* C5 amended: the names in wheels and the names in packages together are
\* the names of the requirement list, and they are disjoint when no two
\* different lines of the list have the same name.
C5_NamePartitionUniqueNames ==
    PackagesComputed =>
        /\ Names(wheels) \cup Range(packages) = Names(requirements)
        /\ NamesUnique(requirements) => Names(wheels) \cap Range(packages) = {}

\* C5 witness: a list of two names split into a wheel and a package
C5_Witness ==
    /\ PackagesComputed
    /\ Len(requirements) = 2
    /\ NamesUnique(requirements)
    /\ wheels # <<>>
    /\ packages # <<>>

\* C6: a second run on the same inputs writes the same pynsist.cfg text as
\* the first.
C6_SameCfgTwice ==
    (run_no = 2 /\ first_cfg # <<>> /\ cfg_payload # <<>>) =>
        cfg_payload = first_cfg

\* C7: a run that reports completion has copied
\* {application}_{version}_win{bitness}.exe from the builder's output path
\* in the working directory to the current directory, before the working
\* directory was removed.
C7_InstallerCopiedBeforeCleanup ==
    pc = "done" =>
        LET name == env.about[1].title \o <<"_">> \o env.about[1].version
                        \o <<"_", "w", "i", "n">> \o sys_argv[2]
                        \o <<".", "e", "x", "e">>
        IN  /\ [name |-> name,
                from |-> <<"<work_dir>", "/", "build", "/", "nsis", "/">> \o name]
                    \in cwd_files
            /\ "copy" \in Range(trace)
            /\ "cleanup" \in Range(trace)
            /\ Position("copy") < Position("cleanup")

\* C7 witness: Foo 1.2.3 for 64 bit reported complete
C7_Witness ==
    /\ pc = "done"
    /\ \E f \in cwd_files :
        f.name = <<"F", "o", "o", "_", "1", ".", "2", ".", "3", "_", "w", "i",
                   "n", "6", "4", ".", "e", "x", "e">>

FreezeReturned == rc["pip_freeze"] = "0"

\* C8: the requirement list is the freeze lines whose name is not the
\* application's, in their order, so it has no line of the application.
C8_RequirementsAreOtherLines ==
    FreezeReturned =>
        LET kept == {k \in 1..Len(freeze_lines) :
                        NameOf(freeze_lines[k]) # mu_about.title}
            nth(j) == CHOOSE k \in kept : Cardinality({m \in kept : m <= k}) = j
        IN  /\ Len(requirements) = Cardinality(kept)
            /\ \A j \in 1..Len(requirements) :
                    requirements[j] = freeze_lines[nth(j)]
            /\ mu_about.title \notin Names(requirements)

\* C8 witness: of two freeze lines the application's, the first, is dropped
\* and the second kept
C8_Witness ==
    /\ FreezeReturned
    /\ Len(freeze_lines) = 2
    /\ Len(requirements) = 1
    /\ NameOf(freeze_lines[1]) = mu_about.title
    /\ requirements[1] = freeze_lines[2]

WheelsInReturned == pc = "packages_from" \/ PackagesComputed

LookupFailed(k) == lookups[k].releases \in {None, <<"HTTPError">>}

\* C9: wheels_in looks up each entry once, in list order, and returns, in
\* input order, the entries of which some release is a wheel; a failed
\* lookup ends the call with an error and no list is returned.
C9_WheelsIn ==
    /\ Len(lookups) <= Len(requirements)
    /\ \A k \in 1..Len(lookups) :
        /\ lookups[k].name = NameOf(requirements[k])
        /\ lookups[k].version = Partition(requirements[k], S_eqeq)[3]
        /\ LookupFailed(k) =>
            /\ k = Len(lookups)
            /\ ~WheelsInReturned
            /\ pc \in {"exit_with", "raised"}
            /\ exc \in {"HTTPError", "TypeError"}
    /\ WheelsInReturned =>
        /\ Len(lookups) = Len(requirements)
        /\ LET has == {k \in 1..Len(requirements) :
                          "wheel" \in Range(lookups[k].releases)}
               nth(j) == CHOOSE k \in has : Cardinality({m \in has : m <= k}) = j
           IN  /\ Len(wheels) = Cardinality(has)
               /\ \A j \in 1..Len(wheels) : wheels[j] = requirements[nth(j)]

\* C9 witness: of two entries, the second only has a wheel
C9_Witness ==
    /\ WheelsInReturned
    /\ Len(requirements) = 2
    /\ requirements[1] # requirements[2]
    /\ wheels = <<requirements[2]>>

Stages == <<"about_dict", "create_packaging_venv", "install_mu", "pip_freeze",
            "wheels_in", "create_pynsist_cfg_file", "download_file",
            "unzip_file", "install_pynsist", "run_pynsist", "copy">>

\* C10: the stages run in the one order, each at most once; the builder runs
\* only after pynsist.cfg was written and the assets unpacked, the copy only
\* after the builder returned.
C10_StagesInOrder ==
    /\ LET done == Project(Range(Stages))
       IN  /\ Len(done) <= Len(Stages)
           /\ done = SubSeq(Stages, 1, Len(done))
    /\ "run_pynsist" \in Range(trace) =>
        /\ cfg_payload # <<>>
        /\ asset = "zip"
        /\ "unzip_file" \in Range(trace)
    /\ "copy" \in Range(trace) => rc["nsist"] \in {"0", "1"}

\* C10 witness: a run through every stage
C10_Witness ==
    /\ pc = "done"
    /\ Project(Range(Stages)) = Stages
====
